---- MODULE Spec2Model ----
(***************************************************************************)
(* Model of the event store of event.go: MongoEventStore and its           *)
(* Create / Update / Get / List / ListFiltered operations over one         *)
(* document collection, with the marshal / unmarshal bridge between an     *)
(* event (testEvent) and its stored envelope (rawEvent).                   *)
(*                                                                         *)
(* The backing collection is modelled as the sequence of its documents in  *)
(* natural order.  Every handler is one atomic action: the code is         *)
(* synchronous and the store keeps no state of its own besides the pool.   *)
(* The backend is taken to be reachable: transport failures of the driver  *)
(* are not modelled.                                                       *)
(***************************************************************************)
EXTENDS Integers, Sequences, FiniteSets, TLC

(***************************************************************************)
(* Bounds of the model.                                                    *)
(***************************************************************************)
\* Identifiers 1..MaxId are the well-formed ObjectIds an event may carry.
MaxId == 2
\* A session that is copied and never closed stays checked out; operations
\* that leak are explored until MaxOpen sessions are checked out.
MaxOpen == 2
\* Callers that may be inside Create or Update at the same time.
MaxCallers == 2

(***************************************************************************)
(* Values.                                                                 *)
(***************************************************************************)
\* ObjectId 0 is the zero ObjectId "" (bson.ObjectId.Valid() is false).
ZeroId == 0
Callers == 1..MaxCallers
ObjectIds == 0..MaxId
InstanceIds == {0, 1}
Strings == {"a", "b"}

Nil == "nil"
ErrNotFound == "ErrNotFound"
ErrInterfaceNotSlicePtr == "ErrInterfaceNotSlicePtr"
\* Errors of the driver (mgo / bson), surfaced unmodified.
MgoErrNotFound == "mgo.ErrNotFound"
MgoErrDup == "mgo.DuplicateKey"
BsonTypeError == "bson.TypeError"
BsonErrStructValue == "bson.RawUnmarshalStructValue"
BsonErrNeedsPointer == "bson.RawUnmarshalNeedsPointer"
BsonErrObjectId == "bson.ObjectIdLength"

\* type testEvent struct { Id, InstanceId bson.ObjectId; String string }
testEvent == [Id : ObjectIds, InstanceId : InstanceIds, String : Strings]
ZeroEvent == [Id |-> ZeroId, InstanceId |-> ZeroId, String |-> ""]

GetId(e) == e.Id
GetInstanceId(e) == e.InstanceId
GetType(e) == 101

Valid(id) == id # ZeroId

(***************************************************************************)
(* BSON marshalling.  A document is a function from lower-cased field      *)
(* names to values; unmarshalling into a struct resets the struct and then *)
(* fills every field whose key the document holds.                         *)
(***************************************************************************)
\* bson key of each field of testEvent (no tags: the lower-cased name).
testEventKey == [Id |-> "id", InstanceId |-> "instanceid", String |-> "string"]

\* Variant: the raw payload keeps only the fields that are not identifiers.
MarshalTestEventPayloadOnly(e) == [k \in {"string"} |-> e.String]

MarshalTestEvent(e) ==
    [k \in {testEventKey[f] : f \in DOMAIN testEventKey} |->
        LET f == CHOOSE g \in DOMAIN testEventKey : testEventKey[g] = k IN e[f]]

UnmarshalTestEvent(doc) ==
    [f \in DOMAIN testEventKey |->
        IF testEventKey[f] \in DOMAIN doc THEN doc[testEventKey[f]] ELSE ZeroEvent[f]]

\* toBSONRaw: bson.Marshal then bson.Unmarshal into a bson.Raw. Marshalling
\* an ObjectId that is not 12 bytes long fails.
toBSONRaw(e) ==
    IF ~Valid(e.Id) \/ ~Valid(e.InstanceId)
    THEN [raw |-> Nil, err |-> BsonErrObjectId]
    ELSE [raw |-> MarshalTestEvent(e), err |-> Nil]

ZeroRawEvent == [Id |-> ZeroId, InstanceId |-> ZeroId, Type |-> 0, Raw |-> Nil]

\* Variant: the envelope's instance identifier is taken from GetId.
buildEventInstanceFromId(e) ==
    LET r == toBSONRaw(e) IN
    IF r.err # Nil
    THEN [re |-> [ZeroRawEvent EXCEPT !.Raw = r.raw], err |-> r.err]
    ELSE [re |-> [Id |-> GetId(e), InstanceId |-> GetId(e),
                  Type |-> GetType(e), Raw |-> r.raw],
          err |-> Nil]

buildEvent(e) ==
    LET r == toBSONRaw(e) IN
    IF r.err # Nil
    THEN [re |-> [ZeroRawEvent EXCEPT !.Raw = r.raw], err |-> r.err]
    ELSE [re |-> [Id |-> GetId(e), InstanceId |-> GetInstanceId(e),
                  Type |-> GetType(e), Raw |-> r.raw],
          err |-> Nil]

\* Variant: only the identifier is validated.
validateEventIdOnly(ev) == IF ~Valid(GetId(ev)) THEN "ErrInvalidId" ELSE Nil

validateEvent(ev) ==
    IF ~Valid(GetId(ev)) THEN "ErrInvalidId"
    ELSE IF ~Valid(GetInstanceId(ev)) THEN "ErrInvalidInstanceId"
    ELSE Nil

\* The stored shape of a rawEvent: keys _id, instanceid, type, raw.
MarshalRawEvent(re) ==
    ("_id" :> re.Id) @@ ("instanceid" :> re.InstanceId) @@
    ("type" :> re.Type) @@ ("raw" :> re.Raw)

UnmarshalRawEvent(doc) ==
    [Id |-> doc["_id"], InstanceId |-> doc["instanceid"],
     Type |-> doc["type"], Raw |-> doc["raw"]]

(***************************************************************************)
(* Destinations handed to Get and List: the kind of the value the caller   *)
(* passes as interface{} and, for pointers, what it points to.             *)
(***************************************************************************)
Dest(kind, val) == [kind |-> kind, val |-> val]
NilDest == Dest("nil", Nil)

\* fromEvent: raw.Raw.Unmarshal(out).
fromEvent(out, raw) ==
    CASE out.kind = "ptrTestEvent" ->
            [out |-> Dest(out.kind, UnmarshalTestEvent(raw.Raw)), err |-> Nil]
      [] out.kind = "ptrInt" -> [out |-> out, err |-> BsonTypeError]
      [] out.kind = "testEvent" -> [out |-> out, err |-> BsonErrStructValue]
      [] OTHER -> [out |-> out, err |-> BsonErrNeedsPointer]

(***************************************************************************)
(* The backing collection (mgo.Collection).                                *)
(***************************************************************************)
PathValue(doc, p) ==
    CASE p = "_id" -> doc["_id"]
      [] p = "instanceid" -> doc["instanceid"]
      [] p = "type" -> doc["type"]
      [] p = "raw.id" -> doc["raw"]["id"]
      [] p = "raw.instanceid" -> doc["raw"]["instanceid"]
      [] p = "raw.string" -> doc["raw"]["string"]

\* bson.M filter: every path of the filter equals the document's value.
\* A nil filter is the empty map and matches every document.
NilFilter == << >>
Matches(doc, f) == \A p \in DOMAIN f : PathValue(doc, p) = f[p]

\* Query.All: the matching documents in natural order.
Find(coll, f) == SelectSeq(coll, LAMBDA d : Matches(d, f))

\* Variant: an insert that does not enforce the uniqueness of _id.
InsertAnyway(coll, doc) == [coll |-> Append(coll, doc), err |-> Nil]

\* Collection.Insert: _id is unique.
Insert(coll, doc) ==
    IF \E i \in 1..Len(coll) : coll[i]["_id"] = doc["_id"]
    THEN [coll |-> coll, err |-> MgoErrDup]
    ELSE [coll |-> Append(coll, doc), err |-> Nil]

Remove(s, i) == [j \in 1..(Len(s) - 1) |-> IF j < i THEN s[j] ELSE s[j + 1]]

\* Variant: an update that reports success and leaves the document as it was.
UpdateDocKeepsOld(coll, selector, doc, moved) ==
    IF \A i \in 1..Len(coll) : ~Matches(coll[i], selector)
    THEN [coll |-> coll, err |-> MgoErrNotFound]
    ELSE [coll |-> coll, err |-> Nil]

\* Variant: a moved document is taken out and not put back.
UpdateDocDropsMoved(coll, selector, doc, moved) ==
    LET hits == {i \in 1..Len(coll) : Matches(coll[i], selector)} IN
    IF hits = {}
    THEN [coll |-> coll, err |-> MgoErrNotFound]
    ELSE LET i == CHOOSE h \in hits : \A g \in hits : h <= g IN
         [coll |-> IF moved THEN Remove(coll, i) ELSE [coll EXCEPT ![i] = doc],
          err |-> Nil]

\* Variant: an update that inserts the document when none matches (an upsert).
UpdateDocUpsert(coll, selector, doc, moved) ==
    LET hits == {i \in 1..Len(coll) : Matches(coll[i], selector)} IN
    IF hits = {}
    THEN [coll |-> Append(coll, doc), err |-> Nil]
    ELSE LET i == CHOOSE h \in hits : \A g \in hits : h <= g IN
         [coll |-> IF moved THEN Append(Remove(coll, i), doc)
                            ELSE [coll EXCEPT ![i] = doc],
          err |-> Nil]

\* Collection.Update(selector, doc): replaces the first matching document;
\* mgo.ErrNotFound when none matches.  The backend may rewrite the document
\* in place or move it (moved), which puts it last in natural order.
UpdateDoc(coll, selector, doc, moved) ==
    LET hits == {i \in 1..Len(coll) : Matches(coll[i], selector)} IN
    IF hits = {}
    THEN [coll |-> coll, err |-> MgoErrNotFound]
    ELSE LET i == CHOOSE h \in hits : \A g \in hits : h <= g IN
         [coll |-> IF moved THEN Append(Remove(coll, i), doc)
                            ELSE [coll EXCEPT ![i] = doc],
          err |-> Nil]

(***************************************************************************)
(* The handlers.  Each yields the error returned, the destination as the   *)
(* caller sees it afterwards, the collection afterwards and the calls made *)
(* on the session, in order.                                               *)
(***************************************************************************)
Result(err, out, coll, calls) ==
    [err |-> err, out |-> out, coll |-> coll, calls |-> calls]

CreateOp(coll, event) ==
    LET verr == validateEvent(event) IN
    IF verr # Nil THEN Result(verr, NilDest, coll, << >>)
    ELSE LET b == buildEvent(event) IN
         IF b.err # Nil THEN Result(b.err, NilDest, coll, <<"Copy", "Close">>)
         ELSE LET r == Insert(coll, MarshalRawEvent(b.re)) IN
              Result(r.err, NilDest, r.coll, <<"Copy", "Insert", "Close">>)

UpdateOp(coll, event, moved) ==
    LET verr == validateEvent(event) IN
    IF verr # Nil THEN Result(verr, NilDest, coll, << >>)
    ELSE LET b == buildEvent(event) IN
         IF b.err # Nil THEN Result(b.err, NilDest, coll, <<"Copy", "Close">>)
         ELSE LET r == UpdateDoc(coll, "_id" :> b.re.Id, MarshalRawEvent(b.re), moved) IN
              Result(r.err, NilDest, r.coll, <<"Copy", "Update", "Close">>)

\* Variant: the envelope is taken out of the collection as it is read.
GetOpRemoves(coll, id, out) ==
    LET found == Find(coll, "_id" :> id) IN
    IF found = << >>
    THEN Result(ErrNotFound, out, coll, <<"Copy", "Find", "Close">>)
    ELSE LET r == fromEvent(out, UnmarshalRawEvent(found[1])) IN
         Result(r.err, r.out, SelectSeq(coll, LAMBDA d : d["_id"] # id),
                <<"Copy", "Find", "Close">>)

\* Variant: the driver's not-found error is returned untranslated.
GetOpUntranslated(coll, id, out) ==
    LET found == Find(coll, "_id" :> id) IN
    IF found = << >>
    THEN Result(MgoErrNotFound, out, coll, <<"Copy", "Find", "Close">>)
    ELSE LET r == fromEvent(out, UnmarshalRawEvent(found[1])) IN
         Result(r.err, r.out, coll, <<"Copy", "Find", "Close">>)

GetOp(coll, id, out) ==
    LET found == Find(coll, "_id" :> id) IN
    IF found = << >>
    THEN Result(ErrNotFound, out, coll, <<"Copy", "Find", "Close">>)
    ELSE LET r == fromEvent(out, UnmarshalRawEvent(found[1])) IN
         Result(r.err, r.out, coll, <<"Copy", "Find", "Close">>)

\* The element a pointer-to-slice destination holds: reflect.New(st).
NewElem(kind) ==
    IF kind = "ptrSliceTestEvent" THEN Dest("ptrTestEvent", ZeroEvent)
    ELSE Dest("ptrInt", 0)

\* Variant: the elements are collected in a fresh slice.
RECURSIVE AppendAllFromEmpty(_, _, _)
AppendAllFromEmpty(kind, slice, rawEvents) ==
    IF rawEvents = << >> THEN << >>
    ELSE LET event == fromEvent(NewElem(kind), rawEvents[Len(rawEvents)]).out IN
         Append(AppendAllFromEmpty(kind, slice, SubSeq(rawEvents, 1, Len(rawEvents) - 1)),
                event.val)

\* Variant: each element replaces the destination instead of extending it.
AppendAllKeepsLast(kind, slice, rawEvents) ==
    IF rawEvents = << >> THEN slice
    ELSE <<fromEvent(NewElem(kind), rawEvents[Len(rawEvents)]).out.val>>

\* Variant: each element is put in front of the destination.
RECURSIVE AppendAllInFront(_, _, _)
AppendAllInFront(kind, slice, rawEvents) ==
    IF rawEvents = << >> THEN slice
    ELSE LET event == fromEvent(NewElem(kind), Head(rawEvents)).out IN
         AppendAllInFront(kind, <<event.val>> \o slice, Tail(rawEvents))

RECURSIVE AppendAll(_, _, _)
AppendAll(kind, slice, rawEvents) ==
    IF rawEvents = << >> THEN slice
    ELSE LET event == fromEvent(NewElem(kind), Head(rawEvents)).out IN
         AppendAll(kind, Append(slice, event.val), Tail(rawEvents))

\* Variant: a slice passed by value is accepted as well.
IsSliceOrSlicePtr(out) ==
    out.kind \in {"ptrSliceTestEvent", "ptrSliceInt", "sliceTestEvent"}

IsSlicePtr(out) == out.kind \in {"ptrSliceTestEvent", "ptrSliceInt"}

list(coll, out, f) ==
    IF ~IsSlicePtr(out)
    THEN Result(ErrInterfaceNotSlicePtr, out, coll, << >>)
    ELSE LET found == Find(coll, f)
             rawEvents == [i \in 1..Len(found) |-> UnmarshalRawEvent(found[i])]
         IN  Result(Nil, Dest(out.kind, AppendAll(out.kind, out.val, rawEvents)),
                    coll, <<"Copy", "Find">>)

ListOp(coll, out) == list(coll, out, NilFilter)

\* Variant: the filter is dropped on the way to the query.
ListFilteredDropsFilter(coll, out, f) == list(coll, out, NilFilter)

ListFilteredOp(coll, out, f) == list(coll, out, f)

(***************************************************************************)
(* State.                                                                  *)
(***************************************************************************)
VARIABLES
    collection,   \* the documents of the backing collection, in natural order
    open,         \* sessions copied from the pool and not closed
    last,         \* the latest call: its operation, arguments and outcome
    created,      \* the events created so far, while Create is the only write
    written,      \* per identifier, the event of the latest successful write
    callers       \* concurrent callers: where each is in its handler

vars == <<collection, open, last, created, written, callers>>

Stale == [pristine |-> FALSE, events |-> << >>]

\* A caller outside any handler.
Idle == [pc |-> "idle", op |-> "none", event |-> ZeroEvent, re |-> ZeroRawEvent,
         err |-> Nil]

Call(op, event, id, f, dest, r, coll) ==
    [op |-> op, event |-> event, id |-> id, filter |-> f, dest |-> dest,
     err |-> r.err, out |-> r.out, calls |-> r.calls, changed |-> r.coll # coll]

RECURSIVE Count(_, _)
Count(calls, c) ==
    IF calls = << >> THEN 0
    ELSE (IF Head(calls) = c THEN 1 ELSE 0) + Count(Tail(calls), c)

\* Session.Copy checks a session out, Session.Close gives it back.
Leaked(calls) == Count(calls, "Copy") - Count(calls, "Close")

\* The write the backend applied last under the event's identifier.
Applied(w, op, event, err) ==
    IF op \in {"Create", "Update"} /\ err = Nil THEN [w EXCEPT ![event.Id] = event]
    ELSE w

Step(call, r) ==
    /\ open + Leaked(r.calls) <= MaxOpen
    /\ written' = Applied(written, call.op, call.event, call.err)
    /\ UNCHANGED callers
    /\ collection' = r.coll
    /\ open' = open + Leaked(r.calls)
    /\ last' = call
    /\ created' = IF call.err # Nil \/ call.op \notin {"Create", "Update"} THEN created
                  ELSE IF call.op = "Create" /\ created.pristine
                  THEN [created EXCEPT !.events = Append(@, call.event)]
                  ELSE Stale

Init ==
    /\ collection = << >>
    /\ open = 0
    /\ last = [op |-> "none", event |-> ZeroEvent, id |-> ZeroId, filter |-> NilFilter,
               dest |-> NilDest, err |-> Nil, out |-> NilDest, calls |-> << >>,
               changed |-> FALSE]
    /\ created = [pristine |-> TRUE, events |-> << >>]
    /\ written = [id \in 1..MaxId |-> ZeroEvent]
    /\ callers = [c \in Callers |-> Idle]

(***************************************************************************)
(* Arguments the callers pass.                                             *)
(***************************************************************************)
SomeEvent == [Id |-> 1, InstanceId |-> 1, String |-> "b"]

GetDests ==
    {Dest("ptrTestEvent", ZeroEvent), Dest("ptrTestEvent", SomeEvent),
     Dest("ptrInt", 0), Dest("testEvent", ZeroEvent)}

ListDests ==
    {NilDest, Dest("sliceTestEvent", << >>), Dest("ptrTestEvent", ZeroEvent),
     Dest("ptrSliceTestEvent", << >>), Dest("ptrSliceTestEvent", <<SomeEvent>>),
     Dest("ptrSliceInt", << >>)}

Filters ==
    {NilFilter} \cup {"raw.string" :> s : s \in Strings} \cup {"_id" :> 1}

(***************************************************************************)
(* Actions: one per operation of EventStore.                               *)
(***************************************************************************)
Create ==
    \E event \in testEvent :
        LET r == CreateOp(collection, event) IN
        Step(Call("Create", event, ZeroId, NilFilter, NilDest, r, collection), r)

Update ==
    \E event \in testEvent, moved \in BOOLEAN :
        LET r == UpdateOp(collection, event, moved) IN
        Step(Call("Update", event, ZeroId, NilFilter, NilDest, r, collection), r)

Get ==
    \E id \in ObjectIds, out \in GetDests :
        LET r == GetOp(collection, id, out) IN
        Step(Call("Get", ZeroEvent, id, NilFilter, out, r, collection), r)

List ==
    \E out \in ListDests :
        LET r == ListOp(collection, out) IN
        Step(Call("List", ZeroEvent, ZeroId, NilFilter, out, r, collection), r)

ListFiltered ==
    \E out \in ListDests, f \in Filters :
        LET r == ListFilteredOp(collection, out, f) IN
        Step(Call("ListFiltered", ZeroEvent, ZeroId, f, out, r, collection), r)

Next == Create \/ Update \/ Get \/ List \/ ListFiltered

Spec == Init /\ [][Next]_vars

(***************************************************************************)
(* Concurrent callers.  A handler is not atomic against other callers: it  *)
(* validates, copies a session and builds its envelope (Enter), makes its  *)
(* one backend call (Write), and closes the session on return (Close).     *)
(* The backend applies each Insert or Update to a document atomically.     *)
(* The callers race on one identifier.                                     *)
(***************************************************************************)
RaceEvents == {e \in testEvent : e.Id = 1}

\* Variant: the envelope is kept in a field shared by the callers, so a
\* caller may send the envelope another caller has built.
EnvelopeShared(c) ==
    callers[CHOOSE d \in Callers :
                /\ callers[d].pc = "built"
                /\ \A g \in Callers : callers[g].pc = "built" => g <= d].re

\* The envelope a caller sends: the local e of its own handler.
Envelope(c) == callers[c].re

Enter(c) ==
    \E op \in {"Create", "Update"}, event \in RaceEvents :
        LET verr == validateEvent(event)
            b == buildEvent(event)
        IN  /\ callers[c].pc = "idle"
            /\ callers' = [callers EXCEPT ![c] =
                   IF verr # Nil
                   THEN [pc |-> "returned", op |-> op, event |-> event,
                         re |-> ZeroRawEvent, err |-> verr]
                   ELSE IF b.err # Nil
                   THEN [pc |-> "closing", op |-> op, event |-> event,
                         re |-> b.re, err |-> b.err]
                   ELSE [pc |-> "built", op |-> op, event |-> event,
                         re |-> b.re, err |-> Nil]]
            /\ open' = IF verr # Nil THEN open ELSE open + 1
            /\ UNCHANGED <<collection, last, created, written>>

Write(c) ==
    \E moved \in BOOLEAN :
        LET doc == MarshalRawEvent(Envelope(c))
            r == IF callers[c].op = "Create" THEN Insert(collection, doc)
                 ELSE UpdateDoc(collection, "_id" :> Envelope(c).Id, doc, moved)
        IN  /\ callers[c].pc = "built"
            /\ collection' = r.coll
            /\ written' = Applied(written, callers[c].op, callers[c].event, r.err)
            /\ callers' = [callers EXCEPT ![c].pc = "closing", ![c].err = r.err]
            /\ UNCHANGED <<open, last, created>>

Close(c) ==
    /\ callers[c].pc = "closing"
    /\ open' = open - 1
    /\ callers' = [callers EXCEPT ![c].pc = "returned"]
    /\ UNCHANGED <<collection, last, created, written>>

Return(c) ==
    /\ callers[c].pc = "returned"
    /\ callers' = [callers EXCEPT ![c] = Idle]
    /\ UNCHANGED <<collection, open, last, created, written>>

NextConc == \E c \in Callers : Enter(c) \/ Write(c) \/ Close(c) \/ Return(c)

SpecConc == Init /\ [][NextConc]_vars

(***************************************************************************)
(* Properties.                                                             *)
(***************************************************************************)
Stored(id) == \E i \in 1..Len(collection) : collection[i]["_id"] = id
ValidEvent(e) == Valid(e.Id) /\ Valid(e.InstanceId)
EmptyTestEvents == Dest("ptrSliceTestEvent", << >>)
\* The event an envelope carries, read off the envelope's own fields.
EventOf(doc) ==
    [Id |-> doc["_id"], InstanceId |-> doc["instanceid"], String |-> doc["raw"]["string"]]
Occurrences(s, x) == Cardinality({j \in 1..Len(s) : s[j] = x})

\* C1: a successful Create(e) followed by Get(e.Id, dest), dest a pointer to a
\* testEvent, returns no error and leaves dest equal to e in every field.
C1_CreateThenGet ==
    [][(/\ last.op = "Create" /\ last.err = Nil
        /\ last'.op = "Get" /\ last'.id = last.event.Id
        /\ last'.dest.kind = "ptrTestEvent")
       => (last'.err = Nil /\ last'.out = Dest("ptrTestEvent", last.event))]_vars

\* A Get that returned the event created last, into a destination that held
\* something else, with no write after that Create.
C1_Witness ==
    /\ last.op = "Get" /\ last.err = Nil /\ last.dest.kind = "ptrTestEvent"
    /\ created.pristine /\ created.events # << >>
    /\ last.out.val = created.events[Len(created.events)]
    /\ last.dest.val # last.out.val

\* C2: Update(e') with a valid e' whose identifier is stored succeeds, and a
\* Get of that identifier right after it yields e'.
C2_UpdateThenGet ==
    [][/\ (last'.op = "Update" /\ ValidEvent(last'.event) /\ Stored(last'.event.Id))
          => last'.err = Nil
       /\ (/\ last.op = "Update" /\ last.err = Nil
           /\ last'.op = "Get" /\ last'.id = last.event.Id
           /\ last'.dest.kind = "ptrTestEvent")
          => (last'.err = Nil /\ last'.out = Dest("ptrTestEvent", last.event))]_vars

\* A Get of the only stored event, after an Update of it has succeeded.
C2_Witness ==
    /\ last.op = "Get" /\ last.err = Nil /\ last.dest.kind = "ptrTestEvent"
    /\ ~created.pristine /\ Len(collection) = 1
    /\ last.dest.val # last.out.val

\* C3: after N events were created in an empty store and nothing else was
\* written, List into a pointer to an empty []testEvent succeeds and holds
\* exactly N elements, each created event once.
C3_ListAll ==
    (last.op = "List" /\ last.dest = EmptyTestEvents /\ created.pristine)
    => /\ last.err = Nil
       /\ Len(last.out.val) = Len(created.events)
       /\ \A i \in 1..Len(created.events) :
              Occurrences(last.out.val, created.events[i]) = 1

C3_Witness ==
    /\ last.op = "List" /\ last.dest = EmptyTestEvents /\ created.pristine
    /\ Len(created.events) >= 2 /\ last.err = Nil

\* C4: ListFiltered into a pointer to an empty []testEvent returns exactly the
\* stored events that match the filter, each once and with its data.
C4_ListFiltered ==
    (last.op = "ListFiltered" /\ last.dest = EmptyTestEvents)
    => LET hits == {i \in 1..Len(collection) : Matches(collection[i], last.filter)} IN
       /\ last.err = Nil
       /\ Len(last.out.val) = Cardinality(hits)
       /\ \A i \in hits : Occurrences(last.out.val, EventOf(collection[i])) = 1
       /\ \A j \in 1..Len(last.out.val) :
              \E i \in hits : last.out.val[j] = EventOf(collection[i])

\* A filter that selects one of two stored events.
C4_Witness ==
    /\ last.op = "ListFiltered" /\ last.dest = EmptyTestEvents
    /\ last.filter # NilFilter
    /\ Len(collection) = 2 /\ Len(last.out.val) = 1

\* C5: Create or Update of an event whose identifier or instance identifier
\* is not valid fails with the validation error, before any session is
\* copied and before any backend call: the collection is as it was.
C5_InvalidEventRejected ==
    (last.op \in {"Create", "Update"} /\ ~ValidEvent(last.event))
    => /\ last.err \in {"ErrInvalidId", "ErrInvalidInstanceId"}
       /\ last.calls = << >>
       /\ ~last.changed

\* A rejected event with a valid identifier and an invalid instance identifier,
\* on a store that holds documents.
C5_Witness ==
    /\ last.op \in {"Create", "Update"} /\ Valid(last.event.Id)
    /\ last.err = "ErrInvalidInstanceId" /\ collection # << >>

\* C6: Get of an identifier that has no stored envelope fails with
\* ErrNotFound.
C6_GetNotFound ==
    (last.op = "Get" /\ ~Stored(last.id)) => last.err = ErrNotFound

C6_Witness ==
    /\ last.op = "Get" /\ Valid(last.id) /\ ~Stored(last.id)
    /\ collection # << >> /\ last.err = ErrNotFound

\* C7: List and ListFiltered fail with ErrInterfaceNotSlicePtr for nil and for
\* a slice passed by value; with a pointer to an empty slice they succeed,
\* and the slice stays empty when no stored document matches.
C7_ListDestination ==
    last.op \in {"List", "ListFiltered"}
    => /\ last.dest.kind \in {"nil", "sliceTestEvent"}
          => last.err = ErrInterfaceNotSlicePtr
       /\ last.dest = EmptyTestEvents
          => /\ last.err = Nil
             /\ (\A i \in 1..Len(collection) : ~Matches(collection[i], last.filter))
                => last.out = EmptyTestEvents

\* A slice passed by value to List on a store that holds documents.
C7_Witness ==
    /\ last.op = "List" /\ last.dest.kind = "sliceTestEvent"
    /\ last.err = ErrInterfaceNotSlicePtr /\ collection # << >>

C9_DuplicateCreate ==
    /\ [](\A i, j \in 1..Len(collection) :
             collection[i]["_id"] = collection[j]["_id"] => i = j)
    /\ [][(last'.op = "Create" /\ ValidEvent(last'.event) /\ Stored(last'.event.Id))
          => (last'.err = MgoErrDup /\ collection' = collection)]_vars

\* A refused Create whose event differs from the one stored under its
\* identifier.
C9_Witness ==
    /\ last.op = "Create" /\ last.err = MgoErrDup
    /\ \E i \in 1..Len(collection) :
           /\ collection[i]["_id"] = last.event.Id
           /\ EventOf(collection[i]) # last.event

\* C10: every operation gives back the session it copied by the time it
\* returns: after any sequence of operations no session is checked out.
C10_SessionsReleased == open = 0

\* C11: a failure inside an operation is returned to the caller: when
\* deserializing a loaded envelope into the destination's element type fails
\* during List or ListFiltered, the operation returns that error.
C11_ListReturnsDecodeError ==
    (last.op \in {"List", "ListFiltered"} /\ IsSlicePtr(last.dest))
    => LET found == Find(collection, last.filter) IN
       \A i \in 1..Len(found) :
           LET r == fromEvent(NewElem(last.dest.kind), UnmarshalRawEvent(found[i])) IN
           r.err # Nil => last.err = r.err

\* C13 as stated: Update of a valid event whose identifier has no stored
\* envelope returns no error and leaves the collection unchanged.
C13_UpdateMissingSucceeds ==
    [][(last'.op = "Update" /\ ValidEvent(last'.event) /\ ~Stored(last'.event.Id))
       => (last'.err = Nil /\ collection' = collection)]_vars

\* C13 as amended: Update of a valid event whose identifier has no stored
\* envelope fails with the driver's not-found error, untranslated, after one
\* update call on a session it gives back; nothing is inserted and the
\* collection is unchanged.
C13_UpdateMissingNotFound ==
    [][(last'.op = "Update" /\ ValidEvent(last'.event) /\ ~Stored(last'.event.Id))
       => /\ last'.err = MgoErrNotFound
          /\ last'.calls = <<"Copy", "Update", "Close">>
          /\ collection' = collection]_vars

\* An Update of an identifier that is not stored, on a store that holds
\* another document.
C13_Witness ==
    /\ last.op = "Update" /\ ValidEvent(last.event) /\ ~Stored(last.event.Id)
    /\ last.err = MgoErrNotFound /\ collection # << >>

\* C14: in every reachable state every stored envelope has a valid identifier
\* and a valid instance identifier, and its identifier, instance identifier
\* and type tag are what the accessors return for the event written last
\* under that identifier.
C14_EnvelopeHeader ==
    \A i \in 1..Len(collection) :
        LET d == collection[i] IN
        /\ Valid(d["_id"]) /\ Valid(d["instanceid"])
        /\ d["_id"] \in DOMAIN written
        /\ d["_id"] = GetId(written[d["_id"]])
        /\ d["instanceid"] = GetInstanceId(written[d["_id"]])
        /\ d["type"] = GetType(written[d["_id"]])

\* Two stored envelopes, one of them just replaced by an Update.
C14_Witness ==
    /\ last.op = "Update" /\ last.err = Nil /\ last.changed
    /\ Len(collection) = 2
    /\ \E i \in 1..2 : collection[i]["_id"] # collection[i]["instanceid"]

StoredIds == {collection[i]["_id"] : i \in 1..Len(collection)}

\* C15: an envelope is never removed: the set of stored identifiers never
\* shrinks, and Get of an identifier that was written never fails with
\* ErrNotFound.
C15_NeverRemoved ==
    /\ []((last.op = "Get" /\ last.id \in DOMAIN written /\ written[last.id] # ZeroEvent)
          => last.err # ErrNotFound)
    /\ [][StoredIds \subseteq StoredIds']_vars

\* A Get that finds its envelope after an Update has rewritten the store.
C15_Witness ==
    /\ last.op = "Get" /\ last.err = Nil /\ ~created.pristine
    /\ Len(collection) = 2

\* C16: List and ListFiltered with a pointer to a slice append one element
\* per envelope the query returns, in the query's order, after the elements
\* the destination held, which are kept in place.
C16_ListAppends ==
    (last.op \in {"List", "ListFiltered"} /\ IsSlicePtr(last.dest))
    => LET found == Find(collection, last.filter)
           n == Len(last.dest.val)
       IN  /\ last.err = Nil
           /\ Len(last.out.val) = n + Len(found)
           /\ \A j \in 1..n : last.out.val[j] = last.dest.val[j]
           /\ last.dest.kind = "ptrSliceTestEvent"
              => \A i \in 1..Len(found) : last.out.val[n + i] = EventOf(found[i])

\* A destination that held one element and gained two.
C16_Witness ==
    /\ last.op \in {"List", "ListFiltered"}
    /\ last.dest = Dest("ptrSliceTestEvent", <<SomeEvent>>)
    /\ Len(last.out.val) = 3

\* C17: Get, List and ListFiltered leave the collection as it was, and what
\* they return is what the collection holds at the time of the call.
C17_ReadsDoNotWrite ==
    last.op \in {"Get", "List", "ListFiltered"}
    => /\ ~last.changed
       /\ (last.op = "Get" /\ last.dest.kind = "ptrTestEvent")
          => IF Stored(last.id)
             THEN /\ last.err = Nil
                  /\ \E i \in 1..Len(collection) :
                         /\ collection[i]["_id"] = last.id
                         /\ last.out.val = EventOf(collection[i])
             ELSE last.err = ErrNotFound /\ last.out = last.dest
       /\ (last.op # "Get" /\ last.dest = EmptyTestEvents)
          => LET found == Find(collection, last.filter) IN
             last.out.val = [i \in 1..Len(found) |-> EventOf(found[i])]

\* A filtered read of a store that an Update has rewritten.
C17_Witness ==
    /\ last.op = "ListFiltered" /\ last.dest = EmptyTestEvents
    /\ ~created.pristine /\ ~last.changed
    /\ last.out.val # << >> /\ Len(last.out.val) < Len(collection)

\* C12: under any interleaving of concurrent Create and Update calls on one
\* identifier the store holds at most one envelope for it, and that envelope
\* is the whole envelope of the successful call the backend applied last,
\* never a mixture of two calls.
C12_LastWriteWins ==
    /\ \A i, j \in 1..Len(collection) :
           collection[i]["_id"] = collection[j]["_id"] => i = j
    /\ \A i \in 1..Len(collection) :
           LET e == written[collection[i]["_id"]] IN
           /\ e # ZeroEvent
           /\ collection[i] = MarshalRawEvent(buildEvent(e).re)

\* Two callers inside their handlers at once, both past a successful write
\* of different events under the one identifier.
C12_Witness ==
    /\ Len(collection) = 1
    /\ \E c, d \in Callers :
           /\ c # d
           /\ callers[c].pc = "closing" /\ callers[d].pc = "closing"
           /\ callers[c].err = Nil /\ callers[d].err = Nil
           /\ callers[c].event # callers[d].event

====
